---------------------------- MODULE Spec2Model ----------------------------
(***************************************************************************)
(* AgriDiag (src/Agri app/app.py): a Streamlit script.  Streamlit runs the *)
(* script top to bottom once per user interaction; the elements one run    *)
(* emits replace those of the run before when the run ends.  The model     *)
(* follows one browser session: the script's position (pc), the widget     *)
(* values Streamlit keeps between runs (uploaded, question), the button    *)
(* that triggered the run, the elements emitted so far (page), the         *)
(* elements the browser shows (screen) and the outbound request.           *)
(*                                                                         *)
(* A text is a sequence of pieces (strings) whose concatenation is the     *)
(* Python string: a literal of the source is one piece, a character typed  *)
(* by the user is one piece.  An f-string is the concatenation (\o) of its *)
(* literal parts and its interpolated texts.                               *)
(***************************************************************************)
EXTENDS Naturals, Sequences, FiniteSets, TLC

\* Longest custom question typed into the text input.
MaxQLen == 2

\* Characters a question is typed from: a blank and a visible one.
QChars == {" ", "a"}

\* Python's None for the key lookups (os.environ.get / st.secrets.get).
None == "<None>"

VARIABLES
    envKey,        \* os.environ.get("GEMINI_API_KEY"): None, "" or a key
    secretKey,     \* st.secrets.get("GEMINI_API_KEY", None)
    uploaded,      \* value of the file_uploader widget (NoFile: nothing)
    question,      \* value of the text_input widget
    trigger,       \* the button whose click started this run ("none": other)
    pc,            \* position of the script run
    cur,           \* the action whose column the run is in
    image_bytes,   \* the script's image_bytes of this run
    output,        \* the script's output of this run
    inflight,      \* requests sent to the model and not yet answered
    page,          \* elements emitted by the run so far
    screen,        \* elements shown once the last run ended
    status,        \* how the run ended: running, complete, stopped, uncaught
    issued,        \* requests sent during this run
    raised,        \* the exceptions the model call raised during this run
    lastCompleted  \* the action whose call completed most recently

vars == <<envKey, secretKey, uploaded, question, trigger, pc, cur, image_bytes,
          output, inflight, page, screen, status, issued, raised, lastCompleted>>

-----------------------------------------------------------------------------
(* Texts *)

RECURSIVE SeqsUpTo(_, _)
SeqsUpTo(S, n) ==
    IF n = 0 THEN {<<>>}
    ELSE LET shorter == SeqsUpTo(S, n - 1)
         IN  shorter \cup {Append(s, c) : s \in shorter, c \in S}

Questions == SeqsUpTo(QChars, MaxQLen)

\* str.isspace() over the characters of the model.
IsSpace(c) == c \in {" ", "\t", "\n"}

\* str.strip(): drop leading and trailing whitespace.
RECURSIVE LStrip(_)
LStrip(s) ==
    IF s # <<>> /\ IsSpace(Head(s)) THEN LStrip(Tail(s)) ELSE s

RECURSIVE RStrip(_)
RStrip(s) ==
    IF s # <<>> /\ IsSpace(s[Len(s)]) THEN RStrip(SubSeq(s, 1, Len(s) - 1)) ELSE s

StripIdentity(s) == s

Strip(s) == RStrip(LStrip(s))

\* t occurs in s as a contiguous run of pieces.
Contains(s, t) ==
    \E i \in 1..(Len(s) + 1) :
        /\ i + Len(t) - 1 <= Len(s)
        /\ SubSeq(s, i, i + Len(t) - 1) = t

NoText == <<>>

-----------------------------------------------------------------------------
(* Configuration: lines 19-22 *)

Keys == {None, "", "key-1"}

\* Python truthiness of a key value.
Truthy(k) == k # None /\ k # ""

\* a or b
GEMINI_KEY == IF Truthy(envKey) THEN envKey ELSE secretKey

KeyMissingOnlyEmpty == GEMINI_KEY = ""

\* if not GEMINI_KEY
KeyMissing == ~Truthy(GEMINI_KEY)

KeyErrorText ==
    <<"Gemini API key not set. Set GEMINI_API_KEY in environment or in Streamlit secrets.">>

-----------------------------------------------------------------------------
(* Uploads: what the user can put into the file_uploader.  kind says what  *)
(* PIL does with the bytes: "good" opens and converts; "undecodable" makes *)
(* Image.open raise; "truncated" has a readable header, so Image.open      *)
(* (lazy) succeeds, and raises when the pixels are loaded (st.image,       *)
(* image.convert).  mb is the size of the JPEG re-encoding in MB.          *)

NoFile == [name |-> "", kind |-> "none", mb |-> 0, err |-> NoText]

Files ==
    { [name |-> "leaf.jpg", kind |-> "good", mb |-> 1, err |-> NoText],
      [name |-> "field.png", kind |-> "good", mb |-> 19, err |-> NoText],
      [name |-> "notes.webp", kind |-> "undecodable", mb |-> 0,
       err |-> <<"cannot identify image file">>],
      [name |-> "cut.png", kind |-> "truncated", mb |-> 0,
       err |-> <<"image file is truncated">>] }

CanOpenAlways(f) == TRUE

\* Image.open(uploaded_file) returns (does not raise).
CanOpen(f) == f.kind # "undecodable"

\* image.convert("RGB") / rgb.save(buf, format="JPEG") return.
CanConvert(f) == f.kind = "good"

NoBytes == [src |-> "", mb |-> 0]

\* buf.getvalue() after the JPEG save of f.
Jpeg(f) == [src |-> f.name, mb |-> f.mb]

SoftLimitMB == 18

OpenErrorText(f) == <<"Couldn't open image: ">> \o f.err

SizeWarningText(b) ==
    <<"Image size ", ToString(b.mb),
      ".0 MB - close to the inline limit (~20MB). Consider resizing for reliability.">>

-----------------------------------------------------------------------------
(* Prompts: lines 95-113, 142-146 *)

Actions == {"find", "suggest", "custom"}

prompt_find_disease ==
    <<"You are an expert plant pathologist and agronomist. Analyze the supplied image and:\n1) Name the most likely disease(s) or disorder(s) (be explicit about uncertainty).\n2) List the visible symptoms you see (e.g., leaf spots, lesions, discoloration, wilting) linked to the image.\n3) Suggest the most probable causal agent (fungus, bacteria, virus, nutrient deficiency, abiotic stress) and why.\n4) Provide a short confidence estimate (low/medium/high) and what additional observations or simple tests would increase confidence.\nAnswer concisely in bullet points and prioritize actionable diagnostic clues.">>

prompt_suggestions ==
    <<"You are an experienced crop protection specialist. Based on the supplied image and likely disease/disorder, provide practical control and management advice in order:\nA) Immediate short-term actions (isolation, sanitation, removal of affected tissue).\nB) Cultural and non-chemical solutions (crop rotation, irrigation changes, pruning, resistant varieties).\nC) If chemical control is recommended: list pesticide types (active ingredient classes), approximate application rates or guidance (give ranges), and safety/environmental precautions.\nD) Monitoring plan: what to watch for, when to re-check, and when to seek lab confirmation.\nEnd with a short list of low-cost confirmatory tests or photos to take for diagnosis.">>

CustomHead ==
    "You are a helpful plant pathology assistant. Use the image to inform your answer.\n\nUser question: "

CustomTail ==
    "\n\nProvide a concise, practical answer and list any assumptions you made."

combined_prompt_stripped(q) == <<CustomHead>> \o Strip(q) \o <<CustomTail>>

\* the f-string of lines 142-146
combined_prompt(q) == <<CustomHead>> \o q \o <<CustomTail>>

PromptOf(a) ==
    CASE a = "find"    -> prompt_find_disease
      [] a = "suggest" -> prompt_suggestions
      [] a = "custom"  -> combined_prompt(question)

ThinkingBudget(a) ==
    CASE a = "find"    -> 500
      [] a = "suggest" -> 400
      [] a = "custom"  -> 200

Label(a) ==
    CASE a = "find"    -> "Find disease (auto)"
      [] a = "suggest" -> "Suggestions & Advice"
      [] a = "custom"  -> "Ask (custom prompt)"

Heading(a) ==
    CASE a = "find"    -> "Likely disease(s) & diagnostic clues"
      [] a = "suggest" -> "Practical suggestions & monitoring plan"
      [] a = "custom"  -> "Model answer to your question"

EmptyPromptText ==
    <<"Please enter a custom prompt in the text box before clicking this button.">>

\* The column after a's, in script order; "none" after the last.
NextCol(a) ==
    CASE a = "find"    -> "suggest"
      [] a = "suggest" -> "custom"
      [] a = "custom"  -> "none"

-----------------------------------------------------------------------------
(* The model call: lines 41-64 *)

\* Texts the model may answer with (response.text): any prose, also one
\* that reads like the script's own error line.
Responses ==
    { <<"Likely disease: Leaf Blight">>,
      <<"Error calling Gemini API: ", "429 RESOURCE_EXHAUSTED">> }

\* Exceptions generate_content may raise: a class and str(e).
Excs ==
    { [type |-> "ClientError", msg |-> <<"429 RESOURCE_EXHAUSTED">>],
      [type |-> "ServerError", msg |-> <<"503 UNAVAILABLE">>] }

ErrorTextNoMessage(e) == <<"Error calling Gemini API: ">>

\* f"Error calling Gemini API: {e}"
ErrorText(e) == <<"Error calling Gemini API: ">> \o e.msg

\* contents = [img_part, prompt_text] with the config of the call
Request(a) ==
    [image |-> image_bytes, mime |-> "image/jpeg", prompt |-> PromptOf(a),
     budget |-> ThinkingBudget(a), model |-> "gemini-2.5-flash"]

-----------------------------------------------------------------------------
(* Elements *)

El(w, t) == [widget |-> w, text |-> t]

HasWidget(p, w) == \E i \in 1..Len(p) : p[i].widget = w

HasEl(p, e) == \E i \in 1..Len(p) : p[i] = e

\* The texts p shows under action a's heading.
Shown(p, a) ==
    { p[i + 1].text : i \in { j \in 1..(Len(p) - 1) : p[j] = El("subheader", <<Heading(a)>>) } }

Active(p) == { a \in Actions : Shown(p, a) # {} }

-----------------------------------------------------------------------------
(* The session *)

Init ==
    /\ envKey \in Keys
    /\ secretKey \in Keys
    /\ uploaded = NoFile
    /\ question = <<>>
    /\ trigger = "none"
    /\ pc = "start"
    /\ cur = "none"
    /\ image_bytes = NoBytes
    /\ output = NoText
    /\ inflight = {}
    /\ page = <<>>
    /\ screen = <<>>
    /\ status = "running"
    /\ issued = 0
    /\ raised = {}
    /\ lastCompleted = "none"

\* The run ends with the elements p emitted: they replace the screen.
EndRun(p, how) ==
    /\ pc' = "done"
    /\ page' = p
    /\ screen' = p
    /\ status' = how

\* Streamlit starts a run of the script for an interaction.
StartRun(trig) ==
    /\ pc = "done"
    /\ pc' = "start"
    /\ trigger' = trig
    /\ cur' = "none"
    /\ image_bytes' = NoBytes
    /\ output' = NoText
    /\ page' = <<>>
    /\ status' = "running"
    /\ issued' = 0
    /\ raised' = {}
    /\ UNCHANGED <<envKey, secretKey, inflight, screen, lastCompleted>>

\* The user picks a file in the uploader.
Upload ==
    \E f \in Files :
        /\ HasWidget(screen, "file_uploader")
        /\ f # uploaded
        /\ uploaded' = f
        /\ StartRun("none")
        /\ UNCHANGED question

\* The user removes the file from the uploader.
RemoveUpload ==
    /\ HasWidget(screen, "file_uploader")
    /\ uploaded # NoFile
    /\ uploaded' = NoFile
    /\ StartRun("none")
    /\ UNCHANGED question

\* The user edits the custom question.
EditQuestion ==
    \E q \in Questions :
        /\ HasWidget(screen, "text_input")
        /\ q # question
        /\ question' = q
        /\ StartRun("none")
        /\ UNCHANGED uploaded

\* The user clicks an action button.
Press ==
    \E a \in Actions :
        /\ HasEl(screen, El("button", <<Label(a)>>))
        /\ StartRun(a)
        /\ UNCHANGED <<uploaded, question>>

\* The user reruns the script (menu, R key).
Rerun ==
    /\ StartRun("none")
    /\ UNCHANGED <<uploaded, question>>

\* lines 19-22: the key check.
CheckKey ==
    /\ pc = "start"
    /\ IF KeyMissing
       THEN EndRun(Append(page, El("error", KeyErrorText)), "stopped")
       ELSE /\ pc' = "sidebar"
            /\ UNCHANGED <<page, screen, status>>
    /\ UNCHANGED <<envKey, secretKey, uploaded, question, trigger, cur,
                   image_bytes, output, inflight, issued, raised, lastCompleted>>

\* lines 30-36: the sidebar with the uploader.
Sidebar ==
    /\ pc = "sidebar"
    /\ page' = Append(page, El("file_uploader", <<"Choose a plant image">>))
    /\ pc' = "upload"
    /\ UNCHANGED <<envKey, secretKey, uploaded, question, trigger, cur,
                   image_bytes, output, inflight, screen, status, issued,
                   raised, lastCompleted>>

\* lines 156-157: nothing uploaded.
NoUpload ==
    /\ pc = "upload"
    /\ uploaded = NoFile
    /\ EndRun(Append(page, El("info", <<"Please upload an image to get started.">>)),
              "complete")
    /\ UNCHANGED <<envKey, secretKey, uploaded, question, trigger, cur,
                   image_bytes, output, inflight, issued, raised, lastCompleted>>

\* lines 69-74: Image.open under try/except.
OpenImage ==
    /\ pc = "upload"
    /\ uploaded # NoFile
    /\ IF CanOpen(uploaded)
       THEN /\ pc' = "normalize"
            /\ UNCHANGED <<page, screen, status>>
       ELSE EndRun(Append(page, El("error", OpenErrorText(uploaded))), "stopped")
    /\ UNCHANGED <<envKey, secretKey, uploaded, question, trigger, cur,
                   image_bytes, output, inflight, issued, raised, lastCompleted>>

\* lines 77-88: show the image, re-encode it as JPEG, check its size.  None
\* of it is under a try: an exception here is uncaught, and Streamlit ends
\* the run showing the exception.
Normalize ==
    /\ pc = "normalize"
    /\ IF CanConvert(uploaded)
       THEN /\ image_bytes' = Jpeg(uploaded)
            /\ page' = page \o <<El("image", <<"Uploaded: ", uploaded.name>>)>>
                            \o (IF Jpeg(uploaded).mb > SoftLimitMB
                                THEN <<El("warning", SizeWarningText(Jpeg(uploaded)))>>
                                ELSE <<>>)
            /\ pc' = "prompts"
            /\ UNCHANGED <<screen, status>>
       ELSE /\ EndRun(Append(page, El("exception", uploaded.err)), "uncaught")
            /\ UNCHANGED image_bytes
    /\ UNCHANGED <<envKey, secretKey, uploaded, question, trigger, cur,
                   output, inflight, issued, raised, lastCompleted>>

\* lines 116-121: the question box and the Actions header.
Prompts ==
    /\ pc = "prompts"
    /\ page' = page \o <<El("text_input", question), El("markdown", <<"### Actions">>)>>
    /\ pc' = "button"
    /\ cur' = "find"
    /\ UNCHANGED <<envKey, secretKey, uploaded, question, trigger, image_bytes,
                   output, inflight, screen, status, issued, raised, lastCompleted>>

ButtonPressedAny(a) == trigger # "none"

\* st.button(...) of action a: True in the run its click started.
ButtonPressed(a) == trigger = a

\* The run moves on to the column after a's, or to the footer.
Advance(a) ==
    IF NextCol(a) = "none"
    THEN /\ pc' = "footer"
         /\ cur' = "none"
    ELSE /\ pc' = "button"
         /\ cur' = NextCol(a)

\* client.models.generate_content(...) is entered: the request goes out.
SendRequest(a) ==
    /\ inflight' = inflight \cup {Request(a)}
    /\ issued' = issued + 1
    /\ pc' = "call"
    /\ UNCHANGED cur

\* lines 124, 131, 138-140: a column's button.  Not pressed: the next
\* column.  Pressed: the call, but for a blank custom question the warning.
Button ==
    /\ pc = "button"
    /\ LET withButton == Append(page, El("button", <<Label(cur)>>))
       IN  IF ~ButtonPressed(cur)
           THEN /\ page' = withButton
                /\ Advance(cur)
                /\ UNCHANGED <<inflight, issued>>
           ELSE IF cur = "custom" /\ Strip(question) = <<>>
           THEN /\ page' = Append(withButton, El("warning", EmptyPromptText))
                /\ Advance(cur)
                /\ UNCHANGED <<inflight, issued>>
           ELSE /\ page' = withButton
                /\ SendRequest(cur)
    /\ UNCHANGED <<envKey, secretKey, uploaded, question, trigger, image_bytes,
                   output, screen, status, raised, lastCompleted>>

\* The except sends the same request again instead of returning.
CallRaisesRetry ==
    \E e \in Excs, r \in inflight :
        /\ pc = "call"
        /\ issued < 3
        /\ issued' = issued + 1
        /\ UNCHANGED <<envKey, secretKey, uploaded, question, trigger, pc, cur,
                       image_bytes, output, inflight, page, screen, status,
                       raised, lastCompleted>>

\* lines 57-62: the call returns response.text.
CallReturns ==
    \E t \in Responses, r \in inflight :
        /\ pc = "call"
        /\ inflight' = inflight \ {r}
        /\ output' = t
        /\ pc' = "render"
        /\ UNCHANGED <<envKey, secretKey, uploaded, question, trigger, cur,
                       image_bytes, page, screen, status, issued, raised,
                       lastCompleted>>

\* lines 63-64: the call raises; the except returns the error line.
CallRaises ==
    \E e \in Excs, r \in inflight :
        /\ pc = "call"
        /\ inflight' = inflight \ {r}
        /\ output' = ErrorText(e)
        /\ raised' = raised \cup {e}
        /\ pc' = "render"
        /\ UNCHANGED <<envKey, secretKey, uploaded, question, trigger, cur,
                       image_bytes, page, screen, status, issued, lastCompleted>>

\* lines 127-128, 134-135, 149-150: the heading and st.write(output).
Render ==
    /\ pc = "render"
    /\ page' = page \o <<El("subheader", <<Heading(cur)>>), El("write", output)>>
    /\ lastCompleted' = cur
    /\ Advance(cur)
    /\ UNCHANGED <<envKey, secretKey, uploaded, question, trigger, image_bytes,
                   output, inflight, screen, status, issued, raised>>

\* lines 153-154: the footer; the script ends.
Footer ==
    /\ pc = "footer"
    /\ EndRun(Append(page, El("info", <<"Tip: If output seems uncertain, re-take the photo.">>)),
              "complete")
    /\ UNCHANGED <<envKey, secretKey, uploaded, question, trigger, cur,
                   image_bytes, output, inflight, issued, raised, lastCompleted>>

Next ==
    \/ Upload
    \/ RemoveUpload
    \/ EditQuestion
    \/ Press
    \/ Rerun
    \/ CheckKey
    \/ Sidebar
    \/ NoUpload
    \/ OpenImage
    \/ Normalize
    \/ Prompts
    \/ Button
    \/ CallReturns
    \/ CallRaises
    \/ Render
    \/ Footer

Spec == Init /\ [][Next]_vars

-----------------------------------------------------------------------------
(* Claims *)

\* The model lists a key as absent when the lookup gives None or "".
KeyAbsent == ~Truthy(envKey) /\ ~Truthy(secretKey)

\* Python whitespace among the characters a question is typed from.
Blank(q) == \A i \in 1..Len(q) : q[i] = " "

\* The failure kinds the specification names.
FailureKinds ==
    {"AuthenticationError", "QuotaOrRateLimitError", "PayloadTooLargeError",
     "ServiceUnavailableError", "UnknownError"}

C2_Original ==
    [][(/\ pc # "done" /\ pc' = "done"
        /\ issued = 0
        /\ status' = "complete"
        /\ HasEl(screen, El("image", <<"Uploaded: ", uploaded.name>>))) =>
           \A a \in Actions : Shown(screen', a) = Shown(screen, a)]_vars

C4_Original ==
    pc = "done" =>
        /\ status # "uncaught"
        /\ (uploaded.kind \in {"undecodable", "truncated"} => HasWidget(screen, "error"))
        /\ (trigger = "custom" /\ Blank(question) => HasWidget(screen, "warning"))
        /\ \A e \in raised : \E i \in 1..Len(screen) : Contains(screen[i].text, e.msg)

\* C5: with no key in the environment and none in the secrets, every run
\* stops at the key check: the error is shown, neither the uploader nor any
\* action button is ever emitted or shown, and no request is ever sent.
C5_NoKeyHalts ==
    KeyAbsent =>
        /\ pc \in {"start", "done"}
        /\ inflight = {}
        /\ issued = 0
        /\ ~HasWidget(page, "file_uploader") /\ ~HasWidget(screen, "file_uploader")
        /\ ~HasWidget(page, "button") /\ ~HasWidget(screen, "button")
        /\ ~HasWidget(page, "text_input") /\ ~HasWidget(screen, "text_input")
        /\ (pc = "done" => /\ status = "stopped"
                           /\ screen = <<El("error", KeyErrorText)>>)

C5_Witness ==
    /\ envKey = None
    /\ secretKey = None
    /\ pc = "done"
    /\ status = "stopped"

\* C6: a request is only ever out for an upload that opened and converted,
\* and carries that upload's JPEG; a run over an upload that cannot be opened
\* ends stopped, showing the error, with no request sent.
C6_UndecodableNoCall ==
    /\ (inflight # {} \/ issued > 0) => uploaded.kind = "good"
    /\ \A r \in inflight : r.image = [src |-> uploaded.name, mb |-> uploaded.mb]
    /\ (pc = "done" /\ ~KeyAbsent /\ uploaded.kind = "undecodable") =>
           /\ status = "stopped"
           /\ issued = 0
           /\ HasEl(screen, El("error", <<"Couldn't open image: ">> \o uploaded.err))
           /\ ~HasWidget(screen, "button")

C6_Witness ==
    /\ pc = "done"
    /\ uploaded.kind = "undecodable"
    /\ HasWidget(screen, "error")
    /\ lastCompleted # "none"

\* C7: a run started by the custom button over an empty or all-blank question
\* sends no request and ends complete, showing the warning and the buttons of
\* the other two actions.
C7_BlankQuestionBlocked ==
    (trigger = "custom" /\ Blank(question)) =>
        /\ inflight = {}
        /\ issued = 0
        /\ pc = "done" =>
               /\ status = "complete"
               /\ HasEl(screen, El("warning", EmptyPromptText))
               /\ Shown(screen, "custom") = {}
               /\ HasEl(screen, El("button", <<Label("find")>>))
               /\ HasEl(screen, El("button", <<Label("suggest")>>))

C7_Witness ==
    /\ pc = "done"
    /\ trigger = "custom"
    /\ question = <<" ", " ">>
    /\ HasWidget(screen, "warning")

C9_QuestionVerbatim ==
    \A r \in inflight :
        cur = "custom" =>
            /\ ~Blank(question)
            /\ Len(r.prompt) = Len(question) + 2
            /\ r.prompt[1] = CustomHead
            /\ SubSeq(r.prompt, 2, Len(question) + 1) = question
            /\ r.prompt[Len(r.prompt)] = CustomTail
            /\ Contains(r.prompt, question)

C9_Witness ==
    /\ cur = "custom"
    /\ question = <<" ", "a">>
    /\ \E r \in inflight : Contains(r.prompt, <<" ", "a">>)

\* C10: a run sends at most one request and at most one is out at a time;
\* the request is built from this run's JPEG of the current upload and the
\* pressed action's prompt; a finished run started by an action button sent
\* exactly one request (none for a blank custom question), also when the call
\* raised, and a run started otherwise sent none.
C10_OneRequestPerPress ==
    /\ Cardinality(inflight) <= 1
    /\ issued <= 1
    /\ (pc = "call") = (inflight # {})
    /\ \A r \in inflight :
           /\ cur = trigger
           /\ issued = 1
           /\ r.image = [src |-> uploaded.name, mb |-> uploaded.mb]
           /\ r.prompt = CASE trigger = "find" -> prompt_find_disease
                           [] trigger = "suggest" -> prompt_suggestions
                           [] trigger = "custom" ->
                                <<CustomHead>> \o question \o <<CustomTail>>
    /\ trigger = "none" => issued = 0
    /\ (pc = "done" /\ trigger \in Actions) =>
           issued = (IF trigger = "custom" /\ Blank(question) THEN 0 ELSE 1)
    /\ raised # {} => issued = 1

C10_Witness ==
    /\ pc = "done"
    /\ trigger = "find"
    /\ raised # {}
    /\ issued = 1
    /\ inflight = {}

=============================================================================
